---- MODULE Spec2Model ----
(***************************************************************************)
(* Watch mode of elm-review (lib/watch.js): the watchers one call of       *)
(* watchFiles installs, their handlers, the file cache they maintain, the  *)
(* debounced refresh of the suppressed errors, and the restart protocol.   *)
(*                                                                         *)
(* JavaScript runs the handlers on one thread.  A handler runs without     *)
(* interleaving up to its next await; every await (a file read, a close(), *)
(* the 20ms timer) ends one action of this model and its continuation is   *)
(* another.  A handler suspended at an await is an element of inflight.    *)
(***************************************************************************)
EXTENDS Integers, Sequences, FiniteSets, Bags, TLC

\* ------------------------------------------------------------- bounds
\* At most MaxInFlight handler continuations are suspended at one time.
MaxInFlight == 2
\* File contents other than the empty string are 1..NumContents.
NumContents == 1
\* The number of watchFiles calls (generations) a behaviour follows.
MaxGen == 2

\* The model counts the events of one burst on the suppression folder up to
\* MaxBurst, and no further.
MaxBurst == 3

\* The delay of the debounce timer, in milliseconds.
SuppressedErrorsDelay == 20

\* ------------------------------------------------------------- values
\* '' is the source of a record made for a path the cache does not hold.
EmptySource == 0
Contents == 0..NumContents
\* The file is not on disk: reading it rejects.
Absent == -1
\* A handler that has not read yet.
NoData == -2
NoRec == 0
RecIds == 1..(MaxInFlight + 1)
NoTimer == 0
TimerIds == 1..(MaxInFlight + 1)

\* elm.json as written on disk: whether the text is indented, and its members
\* in the order of the text.
ElmJsonFiles ==
  << [indented |-> FALSE, members |-> << <<"type", 1>>, <<"deps", 1>> >>],
     [indented |-> TRUE,  members |-> << <<"type", 1>>, <<"deps", 1>> >>],
     [indented |-> FALSE, members |-> << <<"deps", 1>>, <<"type", 1>> >>],
     [indented |-> FALSE, members |-> << <<"type", 1>>, <<"deps", 2>> >>] >>
ElmJsonTexts == DOMAIN ElmJsonFiles

\* FS.readJsonFile: the parsed object, its keys in the order of the text;
\* the layout of the text is gone.
ReadJsonFile(text) == ElmJsonFiles[text].members

\* JSON.stringify: the members in the object's key order.
JSONstringify(value) == value

\* Equality of two parsed objects as values: the same keys with the same
\* values, whatever the order of the keys.
DeepEqual(v1, v2) ==
  {v1[i] : i \in DOMAIN v1} = {v2[i] : i \in DOMAIN v2}

ElmJsonValues == {ReadJsonFile(t) : t \in ElmJsonTexts}

WatcherNames == {"elmJson", "readme", "file", "suppressedErrors", "configuration"}
\* "none": the watcher was not created (null / undefined).
WatcherStates == {"none", "open", "closing", "closed"}

Reports == {"human", "json"}

VARIABLES
  \* process
  isFlushingStdio,          \* module variable, line 21
  stdinListeners,           \* number of 'readable' listeners on process.stdin
  gen,                      \* number of calls of watchFiles so far
  options,                  \* the options of the run
  \* the file system
  diskElmJson, diskSource, diskReadme, diskSuppressed,
  \* AppState
  elmFilesCache,            \* the record the cache holds for the path, or NoRec
  recs,                     \* the ElmFile objects, by identity
  readmeCache,              \* the readme content AppState holds
  \* the generation made by the last call of watchFiles
  elmJsonContent,
  runReview,                \* "forward" or "noop"
  watcher,                  \* state of each watcher
  suppressedErrorsTimeout,  \* the timer the variable holds, or NoTimer
  timers,                   \* timers set and neither fired nor cleared
  inflight,                 \* bag of suspended handlers
  \* observation
  out,                      \* what the last action sent or called, in order
  last,                     \* the last action: a step of a handler by its name,
                            \* a step of the file system or of a close() as
                            \* "environment"
  trigger,                  \* restart triggers fired in this generation
  rebuildCalls,             \* calls of rebuildAndRewatch by this generation
  burst                     \* suppression-folder events since the timer last fired

vars == <<isFlushingStdio, stdinListeners, gen, options,
          diskElmJson, diskSource, diskReadme, diskSuppressed,
          elmFilesCache, recs, readmeCache,
          elmJsonContent, runReview, watcher, suppressedErrorsTimeout, timers,
          inflight, out, last, trigger, rebuildCalls, burst>>

procVars == <<isFlushingStdio, stdinListeners, gen, options>>
diskVars == <<diskElmJson, diskSource, diskReadme, diskSuppressed>>
cacheVars == <<elmFilesCache, recs, readmeCache>>
timerVars == <<suppressedErrorsTimeout, timers>>
histVars == <<trigger, rebuildCalls, burst>>

\* ------------------------------------------------------------ helpers
Eff(e, a) == [e |-> e, a |-> a]
Op(op, arg) == [op |-> op, arg |-> arg, isNewFile |-> FALSE]

Handler(h, elmFile, isNewFile) ==
  [h |-> h, elmFile |-> elmFile, isNewFile |-> isNewFile, data |-> NoData]

Suspended(h) == CopiesIn(h, inflight) > 0
Handlers == BagToSet(inflight)
MayStart == BagCardinality(inflight) < MaxInFlight

FreeRec == [source |-> EmptySource, ast |-> FALSE, live |-> FALSE]

\* The lowest identity no object has.
NewRec(rs) == CHOOSE r \in RecIds : ~rs[r].live /\ \A q \in RecIds : q < r => rs[q].live

\* Objects that neither the cache nor a suspended handler refers to are gone.
Collect(rs, cached, hs) ==
  [r \in RecIds |->
     IF r = cached \/ \E h \in BagToSet(hs) : h.elmFile = r THEN rs[r] ELSE FreeRec]

\* The file a handler reads.
DiskOf(h) ==
  CASE h.h = "elmJson.change" -> diskElmJson
    [] h.h \in {"readme.add", "readme.change"} -> diskReadme
    [] h.h \in {"file.add", "file.change"} -> diskSource
    [] h.h = "suppressedErrors.timer" -> diskSuppressed

Reading == {"elmJson.change", "readme.add", "readme.change",
            "file.add", "file.change", "suppressedErrors.timer"}

\* watcher.close(): chokidar marks the watcher closed at once (it emits no
\* further event) and resolves the returned promise once the OS watches are
\* released; close() of a watcher already closing returns the same promise.
\* `watcher && watcher.close()` of a watcher that is null does nothing.
Close(ws, names) ==
  [w \in WatcherNames |-> IF w \in names /\ ws[w] = "open" THEN "closing" ELSE ws[w]]

\* As AllClosed, had the guards `readmeWatcher &&` and `configurationWatcher &&`
\* been left out: close() of a watcher that was not made throws, and the
\* handler never gets past its await.
AllClosedUnguarded(names) == \A w \in names : watcher[w] = "closed"

\* Promise.all over the close() promises has resolved.
AllClosed(names) == \A w \in names : watcher[w] \in {"none", "closed"}

\* clearTimeout(suppressedErrorsTimeout)
ClearTimeout(ts, t) == ts \ {t}

\* A call of runReview: the function of lines 48-50 forwards the request to
\* the engine, the no-op of lines 73 and 276 does nothing.
CallRunReview ==
  <<Eff("runReview", 0)>>
    \o (IF runReview = "forward" THEN <<Eff("requestReview", 0)>> ELSE <<>>)

\* As Disable, had the assignments of lines 73 and 276 been left out.
DisableNothing == runReview

\* Lines 73 and 276, `runReview = () => {}`: what runReview is bound to next.
Disable == "noop"

\* As AnnounceRestart, had the test of options.debug been left out.
AnnounceRestartClearing ==
  IF options.report # "json"
    THEN <<Eff("clearConsole", 0), Eff("log", 0)>>
    ELSE <<>>

\* Lines 83-91 and 322-330: the console is cleared and the restart announced.
AnnounceRestart ==
  IF options.report # "json"
    THEN (IF ~options.debug THEN <<Eff("clearConsole", 0)>> ELSE <<>>)
         \o <<Eff("log", 0)>>
    ELSE <<>>

\* --------------------------------------------------------------- Init
OptionsSet ==
  [report : Reports, debug : BOOLEAN, readmePath : BOOLEAN, watchConfig : BOOLEAN]

Init ==
  /\ isFlushingStdio = FALSE
  /\ stdinListeners = 0
  /\ gen = 0
  /\ options \in OptionsSet
  /\ diskElmJson = 1
  /\ diskSource = 1
  /\ diskReadme = 1
  /\ diskSuppressed = 0
  /\ elmFilesCache = NoRec
  /\ recs = [r \in RecIds |-> FreeRec]
  /\ readmeCache = Absent
  /\ elmJsonContent = ReadJsonFile(1)
  /\ runReview = "noop"
  /\ watcher = [w \in WatcherNames |-> "none"]
  /\ suppressedErrorsTimeout = NoTimer
  /\ timers = {}
  /\ inflight = EmptyBag
  /\ out = <<>>
  /\ last = Op("Init", 0)
  /\ trigger = {}
  /\ rebuildCalls = 0
  /\ burst = 0

\* ------------------------------------------------------ the file system
WriteElmJson(t) ==
  /\ gen > 0
  /\ t # diskElmJson
  /\ diskElmJson' = t
  /\ out' = <<>>
  /\ last' = Op("environment", 0)
  /\ UNCHANGED <<procVars, diskSource, diskReadme, diskSuppressed, cacheVars,
                 elmJsonContent, runReview, watcher, timerVars, inflight, histVars>>

WriteSource(c) ==
  /\ gen > 0
  /\ c # diskSource
  /\ diskSource' = c
  /\ out' = <<>>
  /\ last' = Op("environment", 0)
  /\ UNCHANGED <<procVars, diskElmJson, diskReadme, diskSuppressed, cacheVars,
                 elmJsonContent, runReview, watcher, timerVars, inflight, histVars>>

WriteReadme(c) ==
  /\ gen > 0
  /\ options.readmePath
  /\ c # diskReadme
  /\ diskReadme' = c
  /\ out' = <<>>
  /\ last' = Op("environment", 0)
  /\ UNCHANGED <<procVars, diskElmJson, diskSource, diskSuppressed, cacheVars,
                 elmJsonContent, runReview, watcher, timerVars, inflight, histVars>>

WriteSuppressed(c) ==
  /\ gen > 0
  /\ c # diskSuppressed
  /\ diskSuppressed' = c
  /\ out' = <<>>
  /\ last' = Op("environment", 0)
  /\ UNCHANGED <<procVars, diskElmJson, diskSource, diskReadme, cacheVars,
                 elmJsonContent, runReview, watcher, timerVars, inflight, histVars>>

\* A suspended read takes the content of its file.
FsRead(h) ==
  /\ Suspended(h)
  /\ h.h \in Reading
  /\ h.data = NoData
  /\ inflight' = (inflight (-) SetToBag({h})) (+) SetToBag({[h EXCEPT !.data = DiskOf(h)]})
  /\ out' = <<>>
  /\ last' = Op("environment", 0)
  /\ UNCHANGED <<procVars, diskVars, cacheVars, elmJsonContent, runReview, watcher,
                 timerVars, histVars>>

\* close() of a watcher completes.
CloseCompletes(w) ==
  /\ watcher[w] = "closing"
  /\ watcher' = [watcher EXCEPT ![w] = "closed"]
  /\ out' = <<>>
  /\ last' = Op("environment", 0)
  /\ UNCHANGED <<procVars, diskVars, cacheVars, elmJsonContent, runReview,
                 timerVars, inflight, histVars>>

\* ----------------------------------------------------------- watchFiles
\* AppState.filesWereUpdated(files): the cache holds the given object for
\* the path of each file.
FilesWereUpdated(cached, files) ==
  IF files = {} THEN cached ELSE CHOOSE r \in files : TRUE

\* AppState.getFileFromMemoryCache(relativePath)
GetFileFromMemoryCache == elmFilesCache

\* AppState.readmeChanged(readme): whether the content differs from the one
\* held, which it replaces.
ReadmeHasChanged(content) == readmeCache # content

\* watchConfiguration, line 304: is a watcher of the configuration made?
WatchesConfiguration(reviewElmJsonPath) ==
  ~(~reviewElmJsonPath \/ ~options.watchConfig)

\* As RegistersStdin, had the guard of line 52 been left out.
RegistersStdinAlways == TRUE

\* Line 52: is the listener that drains stdin to be registered?
RegistersStdin == ~isFlushingStdio

\* No handler, timer or watcher of the previous generation is left.
Quiescent ==
  /\ inflight = EmptyBag
  /\ timers = {}
  /\ \A w \in WatcherNames : watcher[w] \in {"none", "closed"}

\* One call of watchFiles, lines 31-289: by the program's start, or by the
\* rebuildAndRewatch of the generation before.  elmFiles is the project's file
\* as the build read it (or no file), project the elm.json it read.
WatchFiles(elmFiles, project, reviewElmJsonPath) ==
  /\ gen < MaxGen
  /\ gen > 0 => rebuildCalls > 0
  /\ Quiescent
  /\ gen' = gen + 1
  /\ LET r == NewRec([q \in RecIds |-> FreeRec])
         files == IF elmFiles = <<>> THEN {} ELSE {r}
     IN /\ elmFilesCache' = FilesWereUpdated(elmFilesCache, files)
        /\ recs' = IF files = {}
                     THEN Collect(recs, elmFilesCache, EmptyBag)
                     ELSE [q \in RecIds |->
                             IF q = r THEN [source |-> elmFiles[1].source,
                                            ast |-> elmFiles[1].ast, live |-> TRUE]
                                      ELSE FreeRec]
  /\ elmJsonContent' = project
  /\ runReview' = "forward"
  /\ IF RegistersStdin
       THEN /\ stdinListeners' = stdinListeners + 1
            /\ isFlushingStdio' = TRUE
       ELSE UNCHANGED <<stdinListeners, isFlushingStdio>>
  /\ watcher' = [w \in WatcherNames |->
                   CASE w = "readme" -> IF options.readmePath THEN "open" ELSE "none"
                     [] w = "configuration" ->
                          IF WatchesConfiguration(reviewElmJsonPath) THEN "open" ELSE "none"
                     [] OTHER -> "open"]
  /\ suppressedErrorsTimeout' = NoTimer
  /\ timers' = {}
  /\ trigger' = {}
  /\ rebuildCalls' = 0
  /\ burst' = 0
  /\ out' = <<>>
  /\ last' = Op("WatchFiles", 0)
  /\ UNCHANGED <<options, diskVars, readmeCache, inflight>>

\* The elmFiles of a call: no file, or the one file of the project.
ElmFilesInputs ==
  {<<>>} \cup {<<f>> : f \in [source : Contents, ast : BOOLEAN]}

\* ------------------------------------------------------ elmJsonWatcher
\* 'change' on elm.json, line 69 up to the await of line 70.
ElmJsonChange ==
  /\ watcher["elmJson"] = "open"
  /\ MayStart
  /\ inflight' = inflight (+) SetToBag({Handler("elmJson.change", NoRec, FALSE)})
  /\ out' = <<>>
  /\ last' = Op("ElmJsonChange", 0)
  /\ UNCHANGED <<procVars, diskVars, cacheVars, elmJsonContent, runReview, watcher,
                 timerVars, histVars>>

\* As ElmJsonDiffers, had the handler restarted on every change event.
ElmJsonAlwaysDiffers(newValue, cached) == TRUE

\* Line 71: did elm.json change?
ElmJsonDiffers(newValue, cached) == JSONstringify(newValue) # JSONstringify(cached)

\* As ElmJsonCloses, had line 80 been left out.
ElmJsonClosesFour == {"elmJson", "readme", "file", "suppressedErrors"}

\* The watchers the elm.json handler closes, lines 75-81.
ElmJsonCloses == {"elmJson", "readme", "file", "suppressedErrors", "configuration"}

\* Lines 71-81, after the read: up to the await of Promise.all.
ElmJsonChanged(h) ==
  /\ Suspended(h)
  /\ h.h = "elmJson.change"
  /\ h.data \in ElmJsonTexts
  /\ LET newValue == ReadJsonFile(h.data) IN
       IF ElmJsonDiffers(newValue, elmJsonContent)
         THEN /\ elmJsonContent' = newValue
              /\ runReview' = Disable
              /\ timers' = ClearTimeout(timers, suppressedErrorsTimeout)
              /\ watcher' = Close(watcher, ElmJsonCloses)
              /\ inflight' = (inflight (-) SetToBag({h}))
                               (+) SetToBag({Handler("elmJson.restart", NoRec, FALSE)})
              /\ trigger' = trigger \cup {"ManifestChanged"}
              /\ burst' = 0
              /\ UNCHANGED <<suppressedErrorsTimeout, rebuildCalls>>
         ELSE /\ inflight' = inflight (-) SetToBag({h})
              /\ UNCHANGED <<elmJsonContent, runReview, timerVars, watcher, histVars>>
  /\ out' = <<>>
  /\ last' = Op("ElmJsonChanged", h.data)
  /\ UNCHANGED <<procVars, diskVars, cacheVars>>

\* Lines 83-93, once every close() has resolved.
ElmJsonRestart(h) ==
  /\ Suspended(h)
  /\ h.h = "elmJson.restart"
  /\ AllClosed(ElmJsonCloses)
  /\ inflight' = inflight (-) SetToBag({h})
  /\ out' = AnnounceRestart \o <<Eff("rebuildAndRewatch", 0)>>
  /\ rebuildCalls' = rebuildCalls + 1
  /\ last' = Op("ElmJsonRestart", 0)
  /\ UNCHANGED <<procVars, diskVars, cacheVars, elmJsonContent, runReview, watcher,
                 timerVars, trigger, burst>>

\* -------------------------------------------------- watchConfiguration
\* 'change' on the configuration, line 319 up to the await of line 320.
ConfigurationChange ==
  /\ watcher["configuration"] = "open"
  /\ MayStart
  /\ watcher' = Close(watcher, {"configuration"})
  /\ inflight' = inflight (+) SetToBag({Handler("configuration.change", NoRec, FALSE)})
  /\ trigger' = trigger \cup {"ConfigurationChanged"}
  /\ out' = <<>>
  /\ last' = Op("ConfigurationChange", 0)
  /\ UNCHANGED <<procVars, diskVars, cacheVars, elmJsonContent, runReview,
                 timerVars, rebuildCalls, burst>>

\* The watchers the callback of lines 275-287 closes.
ConfigurationCloses == {"elmJson", "readme", "file", "suppressedErrors"}

\* Lines 322-332, once the configuration watcher has closed, and the callback
\* they call, lines 276-284, up to the await of Promise.all.
ConfigurationChanged(h) ==
  /\ Suspended(h)
  /\ h.h = "configuration.change"
  /\ AllClosed({"configuration"})
  /\ runReview' = Disable
  /\ timers' = ClearTimeout(timers, suppressedErrorsTimeout)
  /\ watcher' = Close(watcher, ConfigurationCloses)
  /\ inflight' = (inflight (-) SetToBag({h}))
                   (+) SetToBag({Handler("configuration.restart", NoRec, FALSE)})
  /\ burst' = 0
  /\ out' = AnnounceRestart
  /\ last' = Op("ConfigurationChanged", 0)
  /\ UNCHANGED <<procVars, diskVars, cacheVars, elmJsonContent,
                 suppressedErrorsTimeout, trigger, rebuildCalls>>

\* Line 286, once every close() has resolved.
ConfigurationRestart(h) ==
  /\ Suspended(h)
  /\ h.h = "configuration.restart"
  /\ AllClosed(ConfigurationCloses)
  /\ inflight' = inflight (-) SetToBag({h})
  /\ out' = <<Eff("rebuildAndRewatch", 0)>>
  /\ rebuildCalls' = rebuildCalls + 1
  /\ last' = Op("ConfigurationRestart", 0)
  /\ UNCHANGED <<procVars, diskVars, cacheVars, elmJsonContent, runReview, watcher,
                 timerVars, trigger, burst>>

\* -------------------------------------------------------- readmeWatcher
\* 'add' and 'change' on the readme, lines 119-124 and 131-134, up to the read.
ReadmeEvent(kind) ==
  /\ watcher["readme"] = "open"
  /\ MayStart
  /\ inflight' = inflight (+) SetToBag({Handler(kind, NoRec, FALSE)})
  /\ out' = <<>>
  /\ last' = Op("ReadmeEvent", 0)
  /\ UNCHANGED <<procVars, diskVars, cacheVars, elmJsonContent, runReview, watcher,
                 timerVars, histVars>>

\* Lines 127-129, after the read.
ReadmeAdded(h) ==
  /\ Suspended(h)
  /\ h.h = "readme.add"
  /\ h.data \in Contents
  /\ readmeCache' = h.data
  /\ inflight' = inflight (-) SetToBag({h})
  /\ out' = <<Eff("collectReadme", h.data)>> \o CallRunReview
  /\ last' = Op("ReadmeAdded", h.data)
  /\ UNCHANGED <<procVars, diskVars, elmFilesCache, recs, elmJsonContent, runReview,
                 watcher, timerVars, histVars>>

\* Lines 136-142, after the read.
ReadmeChanged(h) ==
  /\ Suspended(h)
  /\ h.h = "readme.change"
  /\ h.data \in Contents
  /\ readmeCache' = h.data
  /\ inflight' = inflight (-) SetToBag({h})
  /\ out' = IF ReadmeHasChanged(h.data)
              THEN <<Eff("collectReadme", h.data)>> \o CallRunReview
              ELSE <<>>
  /\ last' = Op("ReadmeChanged", h.data)
  /\ UNCHANGED <<procVars, diskVars, elmFilesCache, recs, elmJsonContent, runReview,
                 watcher, timerVars, histVars>>

\* ---------------------------------------------------------- fileWatcher
\* 'add' on a source file, lines 165-184, up to the read.
FileAdd ==
  /\ watcher["file"] = "open"
  /\ MayStart
  /\ LET cached == GetFileFromMemoryCache
         isNewFile == cached = NoRec
         elmFile == IF isNewFile THEN NewRec(recs) ELSE cached
     IN /\ recs' = IF isNewFile
                     THEN [recs EXCEPT ![elmFile] =
                             [source |-> EmptySource, ast |-> FALSE, live |-> TRUE]]
                     ELSE recs
        /\ inflight' = inflight (+) SetToBag({Handler("file.add", elmFile, isNewFile)})
  /\ out' = <<>>
  /\ last' = Op("FileAdd", 0)
  /\ UNCHANGED <<procVars, diskVars, elmFilesCache, readmeCache, elmJsonContent,
                 runReview, watcher, timerVars, histVars>>

\* As SourceDiffers, had the handlers not compared at all.
SourceAlwaysDiffers(rs, elmFile, newSource) == TRUE

\* Lines 186 and 215: does the content read differ from the object's source?
SourceDiffers(rs, elmFile, newSource) == rs[elmFile].source # newSource

\* As Registers, had lines 192-194 been left out.
RegistersNothing(h) == FALSE

\* Line 192: the add handler registers the object it made.
Registers(h) == h.isNewFile

\* Lines 186-190 and 215-222: the object takes the new source and loses its ast.
SetSource(rs, elmFile, newSource) ==
  IF SourceDiffers(rs, elmFile, newSource)
    THEN [rs EXCEPT ![elmFile] = [source |-> newSource, ast |-> FALSE, live |-> TRUE]]
    ELSE rs

\* Lines 186-197, after the read.
FileAdded(h) ==
  /\ Suspended(h)
  /\ h.h = "file.add"
  /\ h.data \in Contents
  /\ LET cached == IF Registers(h)
                     THEN FilesWereUpdated(elmFilesCache, {h.elmFile})
                     ELSE elmFilesCache
         hs == inflight (-) SetToBag({h})
     IN /\ elmFilesCache' = cached
        /\ inflight' = hs
        /\ recs' = Collect(SetSource(recs, h.elmFile, h.data), cached, hs)
        /\ out' = <<Eff("collectFile", h.elmFile)>> \o CallRunReview
  /\ last' = [Op("FileAdded", h.elmFile) EXCEPT !.isNewFile = h.isNewFile]
  /\ UNCHANGED <<procVars, diskVars, readmeCache, elmJsonContent, runReview, watcher,
                 timerVars, histVars>>

\* 'change' on a source file, lines 199-213, up to the read.
FileChange ==
  /\ watcher["file"] = "open"
  /\ MayStart
  /\ LET cached == GetFileFromMemoryCache
         elmFile == IF cached = NoRec THEN NewRec(recs) ELSE cached
     IN /\ recs' = IF cached = NoRec
                     THEN [recs EXCEPT ![elmFile] =
                             [source |-> EmptySource, ast |-> FALSE, live |-> TRUE]]
                     ELSE recs
        /\ inflight' = inflight (+) SetToBag({Handler("file.change", elmFile, FALSE)})
  /\ out' = <<>>
  /\ last' = Op("FileChange", 0)
  /\ UNCHANGED <<procVars, diskVars, elmFilesCache, readmeCache, elmJsonContent,
                 runReview, watcher, timerVars, histVars>>

\* Lines 215-225, after the read.
FileChanged(h) ==
  /\ Suspended(h)
  /\ h.h = "file.change"
  /\ h.data \in Contents
  /\ LET hs == inflight (-) SetToBag({h})
     IN /\ inflight' = hs
        /\ recs' = Collect(SetSource(recs, h.elmFile, h.data), elmFilesCache, hs)
        /\ out' = IF SourceDiffers(recs, h.elmFile, h.data)
                    THEN <<Eff("collectFile", h.elmFile)>> \o CallRunReview
                    ELSE <<>>
  /\ last' = Op("FileChanged", h.elmFile)
  /\ UNCHANGED <<procVars, diskVars, elmFilesCache, readmeCache, elmJsonContent,
                 runReview, watcher, timerVars, histVars>>

\* The source file is written and the watcher reports the write: the content
\* changes on disk and the 'change' handler, lines 199-213, starts.
SourceEdited(c) ==
  /\ watcher["file"] = "open"
  /\ MayStart
  /\ c # diskSource
  /\ diskSource' = c
  /\ LET cached == GetFileFromMemoryCache
         elmFile == IF cached = NoRec THEN NewRec(recs) ELSE cached
     IN /\ recs' = IF cached = NoRec
                     THEN [recs EXCEPT ![elmFile] =
                             [source |-> EmptySource, ast |-> FALSE, live |-> TRUE]]
                     ELSE recs
        /\ inflight' = inflight (+) SetToBag({Handler("file.change", elmFile, FALSE)})
  /\ out' = <<>>
  /\ last' = Op("SourceEdited", c)
  /\ UNCHANGED <<procVars, diskElmJson, diskReadme, diskSuppressed, elmFilesCache,
                 readmeCache, elmJsonContent, runReview, watcher, timerVars, histVars>>

\* FS.readFile of a file that is gone rejects: the handler ends there.
ReadRejects(h) ==
  /\ Suspended(h)
  /\ h.data = Absent
  /\ LET hs == inflight (-) SetToBag({h})
     IN /\ inflight' = hs
        /\ recs' = Collect(recs, elmFilesCache, hs)
  /\ out' = <<Eff("unhandledRejection", 0)>>
  /\ last' = Op("ReadRejects", 0)
  /\ UNCHANGED <<procVars, diskVars, elmFilesCache, readmeCache, elmJsonContent,
                 runReview, watcher, timerVars, histVars>>

\* As FileUnlink, had the handler disabled the reviews and closed its watcher
\* as a restart does.
FileUnlinkRestarting ==
  /\ watcher["file"] = "open"
  /\ runReview' = "noop"
  /\ watcher' = Close(watcher, {"file"})
  /\ out' = <<Eff("removeFile", 0)>> \o CallRunReview
  /\ last' = Op("FileUnlink", 0)
  /\ UNCHANGED <<procVars, diskVars, cacheVars, elmJsonContent,
                 timerVars, inflight, histVars>>

\* 'unlink' on a source file, lines 227-237.
FileUnlink ==
  /\ watcher["file"] = "open"
  /\ out' = <<Eff("removeFile", 0)>> \o CallRunReview
  /\ last' = Op("FileUnlink", 0)
  /\ UNCHANGED <<procVars, diskVars, cacheVars, elmJsonContent, runReview, watcher,
                 timerVars, inflight, histVars>>

\* ----------------------------------------------- suppressedErrorsWatcher
SuppressedData == {0, 1}

\* The lowest timer that is not pending.
NewTimer(ts) == CHOOSE t \in TimerIds : t \notin ts /\ \A q \in TimerIds : q < t => q \in ts

\* As ClearPending, had lines 246-248 been left out.
ClearNothing(ts, t) == ts

\* Lines 246-248: the pending timer is cleared before the next is set.
ClearPending(ts, t) == IF t # NoTimer THEN ClearTimeout(ts, t) ELSE ts

\* updateSuppressedErrors, lines 243-257, on 'add', 'change' and 'unlink' of
\* the suppression folder (lines 266-268): the timer is set anew.
UpdateSuppressedErrors ==
  /\ watcher["suppressedErrors"] = "open"
  /\ LET ts == ClearPending(timers, suppressedErrorsTimeout)
     IN /\ ts # TimerIds
        /\ suppressedErrorsTimeout' = NewTimer(ts)
        /\ timers' = ts \cup {NewTimer(ts)}
  /\ burst' = IF burst < MaxBurst THEN burst + 1 ELSE burst
  /\ out' = <<>>
  /\ last' = Op("UpdateSuppressedErrors", 0)
  /\ UNCHANGED <<procVars, diskVars, cacheVars, elmJsonContent, runReview, watcher,
                 inflight, trigger, rebuildCalls>>

\* The delay has passed: the callback of lines 250-251 starts its read.
TimerFires(t) ==
  /\ t \in timers
  /\ MayStart
  /\ timers' = timers \ {t}
  /\ inflight' = inflight (+) SetToBag({Handler("suppressedErrors.timer", NoRec, FALSE)})
  /\ burst' = 0
  /\ out' = <<>>
  /\ last' = Op("TimerFires", burst)
  /\ UNCHANGED <<procVars, diskVars, cacheVars, elmJsonContent, runReview, watcher,
                 suppressedErrorsTimeout, trigger, rebuildCalls>>

\* Lines 254-255, after the read.
SuppressedErrorsRead(h) ==
  /\ Suspended(h)
  /\ h.h = "suppressedErrors.timer"
  /\ h.data \in SuppressedData
  /\ inflight' = inflight (-) SetToBag({h})
  /\ out' = <<Eff("log", 0), Eff("updateSuppressedErrors", h.data)>>
  /\ last' = Op("SuppressedErrorsRead", h.data)
  /\ UNCHANGED <<procVars, diskVars, cacheVars, elmJsonContent, runReview, watcher,
                 timerVars, histVars>>

\* --------------------------------------------------------------- errors
\* The watchers with .on('error', onError): lines 144, 238 and 269.
OnErrorRegistered == {"readme", "file", "suppressedErrors"}

\* The watchers in the order watchFiles makes them.
WatcherNumber(w) ==
  CASE w = "elmJson" -> 1
    [] w = "readme" -> 2
    [] w = "file" -> 3
    [] w = "suppressedErrors" -> 4
    [] w = "configuration" -> 5

\* A watcher emits 'error'.  An EventEmitter with no listener for 'error'
\* throws the error instead.
WatcherError(w) ==
  /\ watcher[w] = "open"
  /\ out' = <<Eff("error", WatcherNumber(w))>>
            \o (IF w \in OnErrorRegistered
                  THEN <<Eff("onError", WatcherNumber(w))>>
                  ELSE <<Eff("uncaughtException", WatcherNumber(w))>>)
  /\ last' = Op("WatcherError", 0)
  /\ UNCHANGED <<procVars, diskVars, cacheVars, elmJsonContent, runReview, watcher,
                 timerVars, inflight, histVars>>

\* ----------------------------------------------------------------- Next
ElmJsonEvents ==
  \/ \E t \in ElmJsonTexts : WriteElmJson(t)
  \/ ElmJsonChange
  \/ \E h \in Handlers : ElmJsonChanged(h)
  \/ \E h \in Handlers : ElmJsonRestart(h)

ConfigurationEvents ==
  \/ ConfigurationChange
  \/ \E h \in Handlers : ConfigurationChanged(h)
  \/ \E h \in Handlers : ConfigurationRestart(h)

Closes == \E w \in WatcherNames : CloseCompletes(w)

Reads == \E h \in Handlers : FsRead(h)

ReadmeEvents ==
  \/ \E k \in {"readme.add", "readme.change"} : ReadmeEvent(k)
  \/ \E h \in Handlers : ReadmeAdded(h)
  \/ \E h \in Handlers : ReadmeChanged(h)

FileEvents ==
  \/ FileAdd
  \/ \E h \in Handlers : FileAdded(h)
  \/ FileChange
  \/ \E h \in Handlers : FileChanged(h)
  \/ FileUnlink

SourceWrites ==
  \/ \E c \in Contents \cup {Absent} : WriteSource(c)
  \/ \E h \in Handlers : ReadRejects(h)

SuppressedErrorsEvents ==
  \/ UpdateSuppressedErrors
  \/ \E t \in timers : TimerFires(t)
  \/ \E h \in Handlers : SuppressedErrorsRead(h)

Errors == \E w \in WatcherNames : WatcherError(w)

\* Every call of watchFiles, with any input.
Calls ==
  \E f \in ElmFilesInputs, p \in ElmJsonValues, c \in BOOLEAN : WatchFiles(f, p, c)

\* The first call of watchFiles, with its inputs among F, P and C.
FirstCall(F, P, C) ==
  /\ gen = 0
  /\ \E f \in F, p \in P, c \in C : WatchFiles(f, p, c)

\* The program and its environment, whole.
Next ==
  \/ Calls
  \/ ElmJsonEvents
  \/ ConfigurationEvents
  \/ Closes
  \/ Reads
  \/ ReadmeEvents
  \/ \E c \in Contents : WriteReadme(c)
  \/ FileEvents
  \/ SourceWrites
  \/ SuppressedErrorsEvents
  \/ \E c \in SuppressedData : WriteSuppressed(c)
  \/ Errors

Spec == Init /\ [][Next]_vars

\* The specifications below are Spec with the inputs of watchFiles and the
\* events of the environment narrowed to the part of the program a claim is
\* about; each runs the same actions.
InitPlain == Init /\ options.report = "human" /\ ~options.debug

InitFiles == InitPlain /\ ~options.readmePath /\ options.watchConfig

\* One generation with every watcher: the restart protocol among the handlers
\* that request reviews.  The project's files do not change on disk, elm.json
\* does.
NextRestart ==
  \/ FirstCall({<<>>}, {ReadJsonFile(diskElmJson)}, {TRUE})
  \/ ElmJsonEvents
  \/ ConfigurationEvents
  \/ Closes
  \/ Reads
  \/ ReadmeEvents
  \/ FileEvents
  \/ SuppressedErrorsEvents

SpecRestart == InitPlain /\ [][NextRestart]_vars

\* One generation: the errors of its watchers, and the restarts that close them.
NextErrors ==
  \/ FirstCall({<<>>}, {ReadJsonFile(diskElmJson)}, {TRUE})
  \/ Errors
  \/ ElmJsonEvents
  \/ ConfigurationEvents
  \/ Closes
  \/ Reads

SpecErrors == InitPlain /\ [][NextErrors]_vars

\* One generation under every report and debug option: the restart alone.
NextConsole ==
  \/ FirstCall({<<>>}, {ReadJsonFile(diskElmJson)}, {TRUE})
  \/ ElmJsonEvents
  \/ ConfigurationEvents
  \/ Closes
  \/ Reads

SpecConsole == Init /\ [][NextConsole]_vars

\* The generations of one process, each made by the restart of the one before.
NextProcess ==
  \/ \E p \in ElmJsonValues, c \in BOOLEAN : WatchFiles(<<>>, p, c)
  \/ ElmJsonEvents
  \/ ConfigurationEvents
  \/ Closes
  \/ Reads

SpecProcess == InitPlain /\ [][NextProcess]_vars

\* One generation: the source file, which stays on disk, its cache record
\* and its handlers, with the restart a change of the configuration causes.
NextFiles ==
  \/ FirstCall(ElmFilesInputs, {ReadJsonFile(diskElmJson)}, {TRUE})
  \/ FileEvents
  \/ \E c \in Contents : WriteSource(c)
  \/ Reads
  \/ ConfigurationEvents
  \/ Closes

SpecFiles == InitFiles /\ [][NextFiles]_vars

\* One generation: the two restarts among all its watchers, and the
\* suppression folder with its timer.
NextSuppressed ==
  \/ FirstCall({<<>>}, {ReadJsonFile(diskElmJson)}, {TRUE})
  \/ SuppressedErrorsEvents
  \/ \E c \in SuppressedData : WriteSuppressed(c)
  \/ Reads
  \/ ElmJsonEvents
  \/ ConfigurationEvents
  \/ Closes

SpecSuppressed == InitPlain /\ [][NextSuppressed]_vars

\* One generation that starts with the source file cached as it is on disk:
\* every write of the file is reported by a 'change' event, and the handlers'
\* reads complete in any order.
NextEdits ==
  \/ FirstCall({<<[source |-> diskSource, ast |-> b]>> : b \in BOOLEAN},
               {ReadJsonFile(diskElmJson)}, {TRUE})
  \/ \E c \in Contents : SourceEdited(c)
  \/ FileEvents
  \/ Reads

SpecEdits == InitFiles /\ [][NextEdits]_vars

\* The event loop runs a continuation whose promise has resolved.
Resumes ==
  /\ WF_vars(\E h \in Handlers : ElmJsonRestart(h))
  /\ WF_vars(\E h \in Handlers : ConfigurationChanged(h))
  /\ WF_vars(\E h \in Handlers : ConfigurationRestart(h))

\* Every close() that was called resolves.
ClosesResolve == \A w \in WatcherNames : WF_vars(CloseCompletes(w))

\* One generation and its restarts, where every close() resolves and the
\* event loop resumes the handlers that wait for it.
SpecLive == InitPlain /\ [][NextConsole]_vars /\ Resumes /\ ClosesResolve

\* One generation: every handler other than the two that restart, with the
\* errors of the watchers, and the restart a change of the configuration
\* causes.  Nothing is written on disk.
NextActive ==
  \/ FirstCall({<<>>}, {ReadJsonFile(diskElmJson)}, {TRUE})
  \/ ReadmeEvents
  \/ FileEvents
  \/ SuppressedErrorsEvents
  \/ Errors
  \/ Reads
  \/ ConfigurationEvents
  \/ Closes

InitActive == InitPlain /\ options.readmePath /\ options.watchConfig

SpecActive == InitActive /\ [][NextActive]_vars

\* --------------------------------------------------------------- claims
Sent(e) == \E i \in DOMAIN out : out[i].e = e
Count(e) == Cardinality({i \in DOMAIN out : out[i].e = e})

\* C1: once a restart trigger has fired in a generation (elm.json read with
\* a content that differs from the cached one, or a change event on the
\* configuration watcher), no call of runReview forwards requestReview to
\* the engine.
C1_NoReviewAfterTrigger == trigger # {} => ~Sent("requestReview")

\* C2: rebuildAndRewatch is invoked only once every watcher of the
\* generation (elm.json, readme, source files, suppression folder,
\* configuration) has completed close().
C2_RebuildAfterAllClosed ==
  Sent("rebuildAndRewatch") => \A w \in WatcherNames : watcher[w] \in {"none", "closed"}

\* C2 witness: the configuration path invokes rebuildAndRewatch in a
\* generation that has a readme watcher and a configuration watcher.
C2_Witness ==
  /\ Sent("rebuildAndRewatch")
  /\ last.op = "ConfigurationRestart"
  /\ watcher["readme"] = "closed"
  /\ watcher["configuration"] = "closed"

\* C3: a generation invokes rebuildAndRewatch at most once.
C3_RebuildAtMostOnce == rebuildCalls <= 1


\* C4: a change handler whose read returns the very source of the path's
\* cached record (the record it looked up) sends no collectFile, calls no
\* runReview and leaves the record's source and ast as they were.
C4_UnchangedContentIsSilent ==
  [][\A h \in Handlers :
       ( /\ h.h = "file.change"
         /\ last'.op = "FileChanged"
         /\ inflight' = inflight (-) SetToBag({h})
         /\ h.elmFile = elmFilesCache
         /\ h.data = recs[elmFilesCache].source )
       => ( /\ out' = <<>>
            /\ elmFilesCache' = elmFilesCache
            /\ recs'[elmFilesCache] = recs[elmFilesCache] )]_vars

\* C4 witness: a change handler has completed in silence on a cached record
\* that still has its ast.
C4_Witness ==
  /\ last.op = "FileChanged"
  /\ out = <<>>
  /\ elmFilesCache = last.arg
  /\ recs[elmFilesCache].ast

\* C5: an add handler started for a path the cache did not hold leaves the
\* cache holding the one record it made, and sends exactly one collectFile,
\* carrying that record, followed by exactly one call of runReview.
C5_AddCreatesAndSendsOnce ==
  (last.op = "FileAdded" /\ last.isNewFile) =>
    /\ elmFilesCache = last.arg
    /\ recs[last.arg].live
    /\ Len(out) >= 2
    /\ out[1] = Eff("collectFile", elmFilesCache)
    /\ out[2] = Eff("runReview", 0)
    /\ Count("collectFile") = 1
    /\ Count("runReview") = 1

\* C5 witness: such an add handler has completed and its review request
\* went to the engine.
C5_Witness ==
  /\ last.op = "FileAdded"
  /\ last.isNewFile
  /\ elmFilesCache = last.arg
  /\ Sent("requestReview")

\* C6: at most one debounce timer is pending, and it is the one the next
\* event clears; a timer is pending exactly while a burst is open; the timer
\* that fires ends the burst and starts one read, not yet done when it fires;
\* the read sends one updateSuppressedErrors message with the data it read.
C6_OneRefreshPerBurst ==
  /\ Cardinality(timers) <= 1
  /\ timers # {} => timers = {suppressedErrorsTimeout}
  /\ (burst > 0) <=> (timers # {})
  /\ last.op = "TimerFires" =>
       /\ timers = {}
       /\ burst = 0
       /\ \E h \in Handlers : h.h = "suppressedErrors.timer" /\ h.data = NoData
  /\ last.op = "SuppressedErrorsRead" =>
       /\ Count("updateSuppressedErrors") = 1
       /\ Sent("updateSuppressedErrors")
       /\ \A i \in DOMAIN out :
            out[i].e = "updateSuppressedErrors" => out[i].a = last.arg

\* C6 witness: the timer of a burst of MaxBurst events has fired, once.
C6_Witness ==
  /\ last.op = "TimerFires"
  /\ last.arg = MaxBurst
  /\ timers = {}

\* What a restart does to the generation.
NoRestartStep ==
  /\ UNCHANGED <<watcher, runReview, timers, suppressedErrorsTimeout,
                 rebuildCalls, elmJsonContent, trigger>>
  /\ out' = <<>>

\* C7 as stated: an elm.json read whose content is structurally equal to
\* the cached content (the same keys with the same values) restarts nothing.
C7_StructurallyEqualNoRestart ==
  [][( /\ last'.op = "ElmJsonChanged"
       /\ DeepEqual(ReadJsonFile(last'.arg), elmJsonContent) )
     => NoRestartStep]_vars

\* C7 amended: an elm.json read whose content serialises as the cached
\* content does (the same keys in the same order, with the same values)
\* restarts nothing: no watcher is closed, runReview and the pending timer
\* stay, rebuildAndRewatch is not invoked.
C7_SameSerialisationNoRestart ==
  [][( /\ last'.op = "ElmJsonChanged"
       /\ JSONstringify(ReadJsonFile(last'.arg)) = JSONstringify(elmJsonContent) )
     => NoRestartStep]_vars

\* C7 witness: elm.json was rewritten with another layout and read; the
\* generation is as before, its timer pending.
C7_Witness ==
  /\ last.op = "ElmJsonChanged"
  /\ ElmJsonFiles[last.arg].indented
  /\ JSONstringify(ReadJsonFile(last.arg)) = JSONstringify(elmJsonContent)
  /\ trigger = {}
  /\ runReview = "forward"
  /\ timers # {}
  /\ \A w \in WatcherNames : watcher[w] = "open"

\* C8: an error event of any watcher reaches onError.
C8_ErrorsReachOnError ==
  \A i \in DOMAIN out :
    out[i].e = "error" => \E j \in DOMAIN out : out[j] = Eff("onError", out[i].a)

\* C9: the 'readable' listener on stdin is registered by the first call of
\* watchFiles and by no later call.
C9_StdinListenerOnce == stdinListeners = (IF gen = 0 THEN 0 ELSE 1)

\* C9 witness: a second generation has been made.
C9_Witness == gen >= 2 /\ stdinListeners = 1 /\ isFlushingStdio

RestartAnnounced == last.op \in {"ElmJsonRestart", "ConfigurationChanged"}

\* C10: a restart clears the console exactly when options.report is not
\* 'json' and options.debug is off, and nothing else clears it.
C10_ClearConsoleIff ==
  /\ RestartAnnounced =>
       (Sent("clearConsole") <=> (options.report # "json" /\ ~options.debug))
  /\ Sent("clearConsole") => RestartAnnounced

\* C10 witness: a restart under options.debug announced itself without
\* clearing the console.
C10_Witness ==
  /\ RestartAnnounced
  /\ options.debug
  /\ options.report # "json"
  /\ Sent("log")
  /\ ~Sent("clearConsole")

\* C11: once an unlink event for the path has been handled, the file cache
\* holds no record for the path, after a first unlink as after a second in
\* a row.
C11_UnlinkDropsRecord == last.op = "FileUnlink" => elmFilesCache = NoRec

\* The step is the teardown of the elm.json handler: the content it read
\* differs from the cached one.
ManifestTeardownStep ==
  /\ last'.op = "ElmJsonChanged"
  /\ ElmJsonDiffers(ReadJsonFile(last'.arg), elmJsonContent)

\* C12 as stated: the teardown a change of elm.json starts does not close
\* the configuration watcher; only the change handler of the configuration
\* watcher closes it.
C12_OnlyConfigurationPathCloses ==
  [][( /\ watcher["configuration"] = "open"
       /\ watcher'["configuration"] # "open" )
     => last'.op = "ConfigurationChange"]_vars

\* C12 amended: the teardown a change of elm.json starts calls close() on
\* every watcher of the generation, the configuration watcher included, so
\* that none is open after it; the configuration watcher is closed by that
\* teardown or by its own change handler, and by nothing else.
C12_ManifestTeardownClosesAll ==
  [][ /\ ManifestTeardownStep => \A w \in WatcherNames : watcher'[w] # "open"
      /\ ( /\ watcher["configuration"] = "open"
           /\ watcher'["configuration"] # "open" )
         => (ManifestTeardownStep \/ last'.op = "ConfigurationChange") ]_vars

\* C12 witness: the teardown of the elm.json handler has just closed the
\* configuration watcher, whose own change handler never ran.
C12_Witness ==
  /\ last.op = "ElmJsonChanged"
  /\ trigger = {"ManifestChanged"}
  /\ watcher["configuration"] = "closing"
  /\ watcher["elmJson"] = "closing"

\* C13: the two teardowns exclude each other within a generation.  The
\* callback of the configuration watcher does not start its teardown once
\* the elm.json handler has started one, and the elm.json handler starts
\* its first teardown only while runReview still forwards, that is before
\* the callback of the configuration watcher has run.
C13_TriggersExclusive ==
  [][ /\ last'.op = "ConfigurationChanged" => "ManifestChanged" \notin trigger
      /\ (ManifestTeardownStep /\ "ManifestChanged" \notin trigger)
           => runReview = "forward" ]_vars

\* No handler of the source watcher is suspended.
SourceHandlersDone ==
  \A h \in Handlers : h.h \notin {"file.add", "file.change"}

\* C14: once every handler of the source watcher has completed, the record
\* the cache holds for the path has the content the file has on disk.
C14_CacheConverges ==
  (gen > 0 /\ SourceHandlersDone /\ elmFilesCache # NoRec)
    => recs[elmFilesCache].source = diskSource

\* A teardown of the generation has run lines 73-74 or 276-278: runReview
\* is the no-op and the pending timer was cleared.
TeardownBegun == gen > 0 /\ runReview = "noop"

\* C15: once a teardown has cleared the debounce timer, no timer of the
\* generation is pending, none fires, and no updateSuppressedErrors message
\* is sent.
C15_NoRefreshAfterTeardown ==
  TeardownBegun =>
    /\ timers = {}
    /\ last.op # "TimerFires"
    /\ ~Sent("updateSuppressedErrors")

\* C16: watchFiles binds runReview to the forwarding function; each teardown
\* rebinds it to the no-op; once it is the no-op it stays the no-op for the
\* rest of the generation, whatever step follows.
C16_ReviewEnabledMonotonic ==
  /\ [](last.op = "WatchFiles" => runReview = "forward")
  /\ [][(ManifestTeardownStep \/ last'.op = "ConfigurationChanged")
          => runReview' = "noop"]_vars
  /\ [][(gen' = gen /\ runReview = "noop") => runReview' = "noop"]_vars

\* C16 witness: in the second generation of the process, which began with
\* runReview forwarding, both teardowns have run and runReview is the no-op.
C16_Witness ==
  /\ gen >= 2
  /\ trigger = {"ManifestChanged", "ConfigurationChanged"}
  /\ last.op \in {"ElmJsonChanged", "ConfigurationChanged"}
  /\ runReview = "noop"

\* C17: where every close() resolves, a restart trigger that fired leads to
\* a call of rebuildAndRewatch; and either path calls rebuildAndRewatch only
\* in a state where each close() it awaits has resolved, so that a close()
\* that never resolves keeps the path from ever calling it.
C17_RestartCompletes ==
  /\ (trigger # {}) ~> (rebuildCalls > 0)
  /\ [](last.op = "ElmJsonRestart" =>
          \A w \in WatcherNames : watcher[w] \in {"none", "closed"})
  /\ [](last.op = "ConfigurationRestart" =>
          \A w \in WatcherNames : watcher[w] \in {"none", "closed"})

\* C17 witness: in a generation without a readme watcher the elm.json
\* trigger has fired and, every close() resolved, has called
\* rebuildAndRewatch.
C17_Witness ==
  /\ last.op = "ElmJsonRestart"
  /\ trigger = {"ManifestChanged"}
  /\ watcher["readme"] = "none"
  /\ rebuildCalls = 1

\* C18: every collectFile message carries the record the cache holds for
\* the path when it is sent.
C18_CollectFileSendsCachedRecord ==
  \A i \in DOMAIN out :
    out[i].e = "collectFile" => (elmFilesCache # NoRec /\ out[i].a = elmFilesCache)

\* The steps of the handlers that are no restart trigger: source add, change
\* and unlink, readme add and change, the suppression folder's events with
\* their timer and read, and the watchers' errors.
ActiveOps ==
  {"FileAdd", "FileAdded", "FileChange", "FileChanged", "FileUnlink",
   "ReadmeEvent", "ReadmeAdded", "ReadmeChanged",
   "UpdateSuppressedErrors", "TimerFires", "SuppressedErrorsRead",
   "WatcherError"}

\* C19: a step of a handler that is no restart trigger closes no watcher,
\* leaves runReview bound as it was and does not call rebuildAndRewatch.
C19_OnlyTriggersRestart ==
  [][last'.op \in ActiveOps =>
       /\ watcher' = watcher
       /\ runReview' = runReview
       /\ rebuildCalls' = rebuildCalls
       /\ trigger' = trigger
       /\ \A i \in DOMAIN out' : out'[i].e # "rebuildAndRewatch"]_vars

\* C19 witness: an unlink was handled in an active generation, which
\* requested a review and is still active.
C19_Witness ==
  /\ last.op = "FileUnlink"
  /\ Sent("requestReview")
  /\ trigger = {}
  /\ runReview = "forward"
  /\ \A w \in {"elmJson", "file", "suppressedErrors"} : watcher[w] = "open"

\* C20: of two change events on a path handled one after the other while
\* the file keeps its content (nothing is written on disk in SpecActive),
\* whether the cache holds the path or not, at most one sends collectFile
\* and at most one calls runReview.
C20_SecondChangeIsAbsorbed ==
  [][(last.op = "FileChanged" /\ last'.op = "FileChanged") =>
       /\ Count("collectFile")
            + Cardinality({i \in DOMAIN out' : out'[i].e = "collectFile"}) <= 1
       /\ Count("runReview")
            + Cardinality({i \in DOMAIN out' : out'[i].e = "runReview"}) <= 1]_vars

====
